---- MODULE Spec2Model ----
(***************************************************************************)
(* Model of bevy_rainbow's tail: the history buffer of the player          *)
(* (Player::push_tail_node), the rate limiter (tail_gen_system and its     *)
(* repeating 10 ms timer) and the ribbon mesh builder (make_tail_indices,  *)
(* get_normal, make_tail_mesh, modify_mesh), driven frame by frame in the  *)
(* order main registers the systems.                                       *)
(*                                                                         *)
(* Numbers.  An f32 is modelled by the exact real  i + r / sqrt(d2)  with  *)
(* integers i, r and a natural d2; d2 = 0 is the division 0/0, that is     *)
(* NaN.  Positions are integers, a normalised vector has components        *)
(* r / sqrt(d2), and an offset vertex is  i + SIZE * r / sqrt(d2).         *)
(* Rounding of f32 is not modelled.  Time is in integer milliseconds.      *)
(*                                                                         *)
(* Arrays and Vecs are functions on 0 .. len-1, as the code indexes them;  *)
(* only the index list is a sequence (element k of the Vec is seq[k+1]).   *)
(***************************************************************************)
EXTENDS Integers, Sequences, FiniteSets, TLC

\* ------------------------------------------------------------- bounds
\* The history capacity.  The source sets 32 (main.rs:137); the model
\* explores a small capacity and every formula is stated for TAIL_LEN.
TAIL_LEN == 3

\* The cursor visits the first MaxPoints points of CursorPoints.
MaxPoints == 3

\* ---------------------------------------------------------- constants
SIZE == 100

\* Timer::new(Duration::from_millis(10u64), true)
TailTimerMillis == 10

\* The frame times time.delta_seconds() is drawn from, in milliseconds:
\* no time, half the interval, the interval exactly, and an overshoot.
Deltas == {0, 5, 10, 15}

\* ------------------------------------------------------------ numbers
Num(n) == [i |-> n, r |-> 0, d2 |-> 1]

NaN == [i |-> 0, r |-> 0, d2 |-> 0]

IsNaN(a) == a.d2 = 0

\* r = 0 leaves the integer i, whatever the radicand
Canon(a) == IF a.d2 = 0 THEN NaN ELSE IF a.r = 0 THEN Num(a.i) ELSE a

FAdd(a, b) ==
    CASE IsNaN(a) \/ IsNaN(b) -> NaN
      [] a.r = 0 -> Canon([i |-> a.i + b.i, r |-> b.r, d2 |-> b.d2])
      [] b.r = 0 -> Canon([i |-> a.i + b.i, r |-> a.r, d2 |-> a.d2])
      [] a.d2 = b.d2 -> Canon([i |-> a.i + b.i, r |-> a.r + b.r, d2 |-> a.d2])

FNeg(a) == IF IsNaN(a) THEN NaN ELSE [i |-> 0 - a.i, r |-> 0 - a.r, d2 |-> a.d2]

FSub(a, b) == FAdd(a, FNeg(b))

FMul(a, b) ==
    CASE IsNaN(a) \/ IsNaN(b) -> NaN
      [] b.r = 0 -> Canon([i |-> a.i * b.i, r |-> a.r * b.i, d2 |-> a.d2])
      [] a.r = 0 -> Canon([i |-> a.i * b.i, r |-> a.i * b.r, d2 |-> b.d2])

\* a / sqrt(len2) for an integer a; 0 / 0 is NaN
FDivSqrt(a, len2) ==
    IF IsNaN(a) \/ len2 = 0 THEN NaN
    ELSE Canon([i |-> 0, r |-> a.i, d2 |-> len2])

\* --------------------------------------------------------------- Vec2
Vec2(x, y) == [x |-> x, y |-> y]

Vec2_zero == Vec2(Num(0), Num(0))

VSub(a, b) == Vec2(FSub(a.x, b.x), FSub(a.y, b.y))

VAdd(a, b) == Vec2(FAdd(a.x, b.x), FAdd(a.y, b.y))

VScale(a, s) == Vec2(FMul(a.x, Num(s)), FMul(a.y, Num(s)))

\* length_squared of a vector of integers
length_squared(a) == a.x.i * a.x.i + a.y.i * a.y.i

distance_squared(a, b) == length_squared(VSub(a, b))

normalize(a) == Vec2(FDivSqrt(a.x, length_squared(a)), FDivSqrt(a.y, length_squared(a)))

is_nan(a) == IsNaN(a.x) \/ IsNaN(a.y)

vec2_to_array_3(v) == <<v.x, v.y, Num(0)>>

\* ------------------------------------------------------ history buffer
\* TailNode::default()
TailNode_default == [pos |-> Vec2_zero, velocity |-> Vec2_zero]

\* for i in (1..TAIL_LEN).rev() { self.tail[i] = self.tail[i - 1]; }
RECURSIVE ShiftLoop(_, _)
ShiftLoop(tail, i) ==
    IF i < 1 THEN tail
    ELSE ShiftLoop([tail EXCEPT ![i] = tail[i - 1]], i - 1)

\* the loop run upwards: every slot ends up a copy of tail[0]
RECURSIVE ShiftLoopUp(_, _)
ShiftLoopUp(tail, i) ==
    IF i > TAIL_LEN - 1 THEN tail
    ELSE ShiftLoopUp([tail EXCEPT ![i] = tail[i - 1]], i + 1)

push_tail_node_shift_up(self, pos) ==
    LET velocity == IF distance_squared(pos, self.tail[0].pos) < 2
                    THEN self.tail[0].velocity
                    ELSE VSub(pos, self.tail[0].pos)
        new_node == [pos |-> pos, velocity |-> velocity]
        shifted  == ShiftLoopUp(self.tail, 1)
    IN  [self EXCEPT !.tail = [shifted EXCEPT ![0] = new_node]]

\* no anti-jitter branch: the velocity is always the difference
push_tail_node_no_guard(self, pos) ==
    LET new_node == [pos |-> pos, velocity |-> VSub(pos, self.tail[0].pos)]
        shifted  == ShiftLoop(self.tail, TAIL_LEN - 1)
    IN  [self EXCEPT !.tail = [shifted EXCEPT ![0] = new_node]]

\* the guard compares with 1 instead of 2
push_tail_node_low_threshold(self, pos) ==
    LET velocity == IF distance_squared(pos, self.tail[0].pos) < 1
                    THEN self.tail[0].velocity
                    ELSE VSub(pos, self.tail[0].pos)
        new_node == [pos |-> pos, velocity |-> velocity]
        shifted  == ShiftLoop(self.tail, TAIL_LEN - 1)
    IN  [self EXCEPT !.tail = [shifted EXCEPT ![0] = new_node]]

push_tail_node(self, pos) ==
    LET velocity == IF distance_squared(pos, self.tail[0].pos) < 2
                    THEN self.tail[0].velocity
                    ELSE VSub(pos, self.tail[0].pos)
        new_node == [pos |-> pos, velocity |-> velocity]
        shifted  == ShiftLoop(self.tail, TAIL_LEN - 1)
    IN  [self EXCEPT !.tail = [shifted EXCEPT ![0] = new_node]]

\* --------------------------------------------------------------- timer
\* Timer::new(duration, repeating): nothing elapsed, not finished
Timer_new(duration, repeating) ==
    [elapsed |-> 0, duration |-> duration, finished |-> FALSE, repeating |-> repeating]

\* Timer::tick(delta): a repeating timer wraps around when it finishes
Timer_tick(t, delta) ==
    LET elapsed  == t.elapsed + delta
        finished == elapsed >= t.duration
    IN  [t EXCEPT !.finished = finished,
                  !.elapsed  = IF finished
                               THEN (IF t.repeating THEN elapsed % t.duration ELSE t.duration)
                               ELSE elapsed]

\* --------------------------------------------------------- index list
ToU16(a) == a % 65536

\* for i in 0..n - 1: two triangles per consecutive centerline pair
RECURSIVE QuadLoop(_, _, _)
QuadLoop(n, i, triangles) ==
    IF i >= n - 1 THEN triangles
    ELSE QuadLoop(n, i + 1,
            Append(Append(triangles, <<i, i + 1, 2 * i + n>>),
                   <<i + 1, 2 * i + n, 2 * i + n + 1>>))

\* for i in 1..n - 1: one seam triangle per interior sample
RECURSIVE SeamLoop(_, _, _)
SeamLoop(n, i, triangles) ==
    IF i >= n - 1 THEN triangles
    ELSE SeamLoop(n, i + 1, Append(triangles, <<i, 2 * i + n - 1, 2 * i + n>>))

\* flat_map(|(a, b, c)| vec![a as u16, b as u16, c as u16])
RECURSIVE FlatMapU16(_)
FlatMapU16(triangles) ==
    IF triangles = <<>> THEN <<>>
    ELSE <<ToU16(Head(triangles)[1]), ToU16(Head(triangles)[2]), ToU16(Head(triangles)[3])>>
         \o FlatMapU16(Tail(triangles))

\* the seam loop started at 0
tail_triangles_seam_from_0(n) == SeamLoop(n, 0, QuadLoop(n, 0, <<>>))

\* the quad loop run for one sample more than the buffer holds
tail_triangles_one_more(n) == SeamLoop(n, 1, QuadLoop(n + 1, 0, <<>>))

\* the triangles of make_tail_indices for a capacity n, before flattening
tail_triangles(n) == SeamLoop(n, 1, QuadLoop(n, 0, <<>>))

make_tail_indices == FlatMapU16(tail_triangles(TAIL_LEN))

\* -------------------------------------------------------- mesh builder
\* without the is_nan guard
get_normal_no_guard(velocity) == normalize(Vec2(velocity.y, FNeg(velocity.x)))

get_normal(velocity) ==
    LET normal == normalize(Vec2(velocity.y, FNeg(velocity.x)))
    IN  IF is_nan(normal) THEN [normal EXCEPT !.x = Num(0), !.y = Num(0)] ELSE normal

\* an array of len copies of v
Array(len, v) == [k \in 0 .. len - 1 |-> v]

\* an indexed store a[k] = v; out of range it panics (ok = FALSE)
Store(st, k, v) ==
    IF st.ok /\ k \in DOMAIN st.arr THEN [st EXCEPT !.arr[k] = v]
    ELSE [st EXCEPT !.ok = FALSE]

\* for (i, node) in player.tail.iter().enumerate() { main_tail[i] = node.pos; }
RECURSIVE MainTailLoop(_, _, _)
MainTailLoop(player, i, st) ==
    IF i >= TAIL_LEN THEN st
    ELSE MainTailLoop(player, i + 1, Store(st, i, player.tail[i].pos))

\* the interior pair built from the sample's own normal twice
RECURSIVE SubTailLoop_own_normal(_, _, _, _)
SubTailLoop_own_normal(player, main_tail, i, st) ==
    IF i >= TAIL_LEN THEN st
    ELSE LET normal == get_normal(player.tail[i].velocity)
             st1 == IF i = 0
                    THEN Store(st, 0, VAdd(main_tail[0], VScale(normal, SIZE)))
                    ELSE IF i < TAIL_LEN - 1
                    THEN Store(Store(st, 2 * i - 1,
                                     VAdd(main_tail[i], VScale(normal, SIZE))),
                               2 * i, VAdd(main_tail[i], VScale(normal, SIZE)))
                    ELSE Store(st, 2 * i - 1, VAdd(main_tail[i], VScale(normal, SIZE)))
         IN  SubTailLoop_own_normal(player, main_tail, i + 1, st1)

\* for i in 0..player.tail.len() { ... sub_tail[..] = main_tail[i] + normal * SIZE ... }
RECURSIVE SubTailLoop(_, _, _, _)
SubTailLoop(player, main_tail, i, st) ==
    IF i >= TAIL_LEN THEN st
    ELSE LET normal == get_normal(player.tail[i].velocity)
             st1 == IF i = 0
                    THEN Store(st, 0, VAdd(main_tail[0], VScale(normal, SIZE)))
                    ELSE IF i < TAIL_LEN - 1
                    THEN LET normal_last == get_normal(player.tail[i - 1].velocity)
                         IN  Store(Store(st, 2 * i - 1,
                                         VAdd(main_tail[i], VScale(normal_last, SIZE))),
                                   2 * i, VAdd(main_tail[i], VScale(normal, SIZE)))
                    ELSE Store(st, 2 * i - 1, VAdd(main_tail[i], VScale(normal, SIZE)))
         IN  SubTailLoop(player, main_tail, i + 1, st1)

\* for i in 0..main_tail.len() { vertices[i].0 = ..; colors[i] = 1.0; }
\* for i in 0..sub_tail.len() { vertices[i + TAIL_LEN].0 = ..; colors[i + TAIL_LEN] = 0.0; }
RECURSIVE VertexLoop(_, _, _, _, _, _)
VertexLoop(src, offset, color, i, vertices, colors) ==
    IF i \notin DOMAIN src THEN [vertices |-> vertices, colors |-> colors]
    ELSE VertexLoop(src, offset, color, i + 1,
            IF (i + offset) \in DOMAIN vertices.arr
            THEN [vertices EXCEPT !.arr[i + offset][1] = vec2_to_array_3(src[i])]
            ELSE [vertices EXCEPT !.ok = FALSE],
            Store(colors, i + offset, color))

\* mesh.set_attribute(name, values)
set_attribute(mesh, name, values) ==
    [mesh EXCEPT !.attributes = (name :> values) @@ @]

\* the three attribute Vecs are filled from the vertices, then installed
modify_mesh(mesh, vertices, indices) ==
    LET positions == [k \in DOMAIN vertices |-> vertices[k][1]]
        normals   == [k \in DOMAIN vertices |-> vertices[k][2]]
        uvs       == [k \in DOMAIN vertices |-> vertices[k][3]]
        m1 == [mesh EXCEPT !.indices = indices]
        m2 == set_attribute(m1, "Vertex_Position", positions)
        m3 == set_attribute(m2, "Vertex_Normal", normals)
    IN  set_attribute(m3, "Vertex_Uv", uvs)

\* Mesh::new(PrimitiveTopology::TriangleList): no indices, no attributes
Mesh_new == [indices |-> <<>>, attributes |-> [a \in {} |-> <<>>]]

make_mesh(vertices, indices) == modify_mesh(Mesh_new, vertices, indices)

\* the result is the rebuilt mesh, and ok = FALSE when an indexed store
\* was out of range (the build panics)
make_tail_mesh(mesh, player) ==
    LET mt == MainTailLoop(player, 0, [arr |-> Array(TAIL_LEN, Vec2_zero), ok |-> TRUE])
        main_tail == mt.arr
        sb == SubTailLoop(player, main_tail, 0,
                          [arr |-> Array((TAIL_LEN - 1) * 2, Vec2_zero), ok |-> TRUE])
        sub_tail == sb.arr
        vertices0 == [arr |-> Array((TAIL_LEN - 1) * 4 - (TAIL_LEN - 2),
                                    << <<Num(0), Num(0), Num(0)>>,
                                       <<Num(0), Num(0), Num(1)>>,
                                       <<Num(0), Num(0)>> >>),
                      ok |-> TRUE]
        indices == make_tail_indices
        colors0 == [arr |-> Array((TAIL_LEN - 1) * 4 - (TAIL_LEN - 2), Num(0)), ok |-> TRUE]
        l1 == VertexLoop(main_tail, 0, Num(1), 0, vertices0, colors0)
        l2 == VertexLoop(sub_tail, TAIL_LEN, Num(0), 0, l1.vertices, l1.colors)
        m1 == modify_mesh(mesh, l2.vertices.arr, indices)
    IN  [mesh |-> set_attribute(m1, "Vertex_X", l2.colors.arr),
         ok   |-> mt.ok /\ sb.ok /\ l2.vertices.ok /\ l2.colors.ok]

\* --------------------------------------------------------------- state
VARIABLES
    pc,         \* the system that runs next in the frame
    trans,      \* the player's Transform translation (x, y)
    tail_timer, \* the TailTimer resource
    player,     \* the Player component
    mesh,       \* the tail's Mesh asset
    panicked    \* a system panicked: the app is gone

vars == <<pc, trans, tail_timer, player, mesh, panicked>>

\* the cursor positions MousePos can hold
CursorPoints == << <<0, 0>>, <<-1, 0>>, <<-1, 1>>, <<1, 1>>, <<2, -1>> >>

Positions ==
    {Vec2(Num(CursorPoints[k][1]), Num(CursorPoints[k][2])) : k \in 1 .. MaxPoints}

\* setup and the resources main adds
Init ==
    /\ pc = "move_system"
    /\ trans = Vec2_zero
    /\ tail_timer = Timer_new(TailTimerMillis, TRUE)
    /\ player = [size |-> SIZE, tail |-> Array(TAIL_LEN, TailNode_default)]
    /\ mesh = make_mesh(<<>>, <<>>)
    /\ panicked = FALSE

\* the player follows MousePos, which the cursor events of the frame set
move_system ==
    /\ pc = "move_system" /\ ~panicked
    /\ \E mouse_pos \in Positions : trans' = mouse_pos
    /\ pc' = "tail_gen_system"
    /\ UNCHANGED <<tail_timer, player, mesh, panicked>>

\* the push made whatever the timer says
tail_gen_system_always_push ==
    /\ pc = "tail_gen_system" /\ ~panicked
    /\ \E delta \in Deltas :
         /\ tail_timer' = Timer_tick(tail_timer, delta)
         /\ player' = push_tail_node(player, trans)
    /\ pc' = "tail_system"
    /\ UNCHANGED <<trans, mesh, panicked>>

tail_gen_system ==
    /\ pc = "tail_gen_system" /\ ~panicked
    /\ \E delta \in Deltas :
         /\ tail_timer' = Timer_tick(tail_timer, delta)
         /\ player' = IF ~tail_timer'.finished THEN player
                      ELSE push_tail_node(player, trans)
    /\ pc' = "tail_system"
    /\ UNCHANGED <<trans, mesh, panicked>>

\* the mesh rebuilt only in a frame that pushed
tail_system_on_push_only ==
    /\ pc = "tail_system" /\ ~panicked
    /\ LET built == make_tail_mesh(mesh, player)
       IN  IF ~tail_timer.finished THEN mesh' = mesh /\ panicked' = FALSE
           ELSE IF built.ok THEN mesh' = built.mesh /\ panicked' = FALSE
           ELSE mesh' = mesh /\ panicked' = TRUE
    /\ pc' = "move_system"
    /\ UNCHANGED <<trans, tail_timer, player>>

tail_system ==
    /\ pc = "tail_system" /\ ~panicked
    /\ LET built == make_tail_mesh(mesh, player)
       IN  IF built.ok THEN mesh' = built.mesh /\ panicked' = FALSE
           ELSE mesh' = mesh /\ panicked' = TRUE
    /\ pc' = "move_system"
    /\ UNCHANGED <<trans, tail_timer, player>>

Next == move_system \/ tail_gen_system \/ tail_system

Spec == Init /\ [][Next]_vars

\* ------------------------------------------------------------- claims
Samples == 0 .. TAIL_LEN - 1

\* tail_system has built the mesh at least once
Built == "Vertex_X" \in DOMAIN mesh.attributes

\* the mesh the builder makes of a buffer, from the empty mesh of setup
Build(p) == make_tail_mesh(make_mesh(<<>>, <<>>), p).mesh

Position(k) == mesh.attributes["Vertex_Position"][k]

\* C1: a push leaves exactly TAIL_LEN samples, the new tail[0] at the pushed
\* position and every other sample the old sample one slot before it, the
\* old last sample gone.
C1_PushShiftsByOne ==
    [][(pc = "tail_gen_system" /\ tail_timer'.finished) =>
          /\ DOMAIN player'.tail = Samples
          /\ player'.tail[0].pos = trans
          /\ \A i \in 1 .. TAIL_LEN - 1 : player'.tail[i] = player.tail[i - 1]]_vars

\* a push has just filled a buffer whose samples all differ
C1_Witness ==
    /\ pc = "tail_system" /\ tail_timer.finished
    /\ player.tail[0].pos = trans
    /\ \A i, j \in Samples : i # j => player.tail[i] # player.tail[j]
    /\ player.tail[TAIL_LEN - 1].velocity # Vec2_zero

\* C2: the velocity a push stores is the old tail[0].velocity when the pushed
\* position is within squared distance 2 of the old tail[0].pos, and the
\* difference of the two positions otherwise.
C2_AntiJitter ==
    [][(pc = "tail_gen_system" /\ tail_timer'.finished) =>
          player'.tail[0].velocity =
              IF distance_squared(trans, player.tail[0].pos) < 2
              THEN player.tail[0].velocity
              ELSE VSub(trans, player.tail[0].pos)]_vars

\* a push one unit away has kept a non-zero velocity
C2_Witness ==
    /\ pc = "tail_system" /\ tail_timer.finished
    /\ distance_squared(player.tail[0].pos, player.tail[1].pos) = 1
    /\ player.tail[0].velocity = player.tail[1].velocity
    /\ player.tail[0].velocity # Vec2_zero

\* C3: tail_gen_system advances the timer by the frame's time and pushes the
\* player's position exactly when the 10 ms interval is reached; a frame
\* below the interval leaves every sample unchanged.
C3_RateLimited ==
    [][pc = "tail_gen_system" =>
          \E delta \in Deltas :
              /\ tail_timer' = Timer_tick(tail_timer, delta)
              /\ tail_timer.elapsed + delta >= TailTimerMillis
                    => player' = push_tail_node(player, trans)
              /\ tail_timer.elapsed + delta < TailTimerMillis
                    => player' = player]_vars

\* a frame below the interval has kept a filled buffer though the player moved
C3_Witness ==
    /\ pc = "tail_system" /\ ~tail_timer.finished /\ tail_timer.elapsed > 0
    /\ trans # player.tail[0].pos
    /\ player.tail[0].velocity # Vec2_zero

NoNaN(m) ==
    \A k \in DOMAIN m.attributes["Vertex_Position"] :
        \A c \in 1 .. 3 : ~IsNaN(m.attributes["Vertex_Position"][k][c])

\* the vertex offset from sample i by the sample's own normal
OwnOffset(i) == IF i = TAIL_LEN - 1 THEN 3 * TAIL_LEN - 3 ELSE TAIL_LEN + 2 * i

\* C4: get_normal of the zero vector is the zero vector; the build never
\* panics, no vertex component of a built mesh is NaN, and the offset vertex
\* of a zero-velocity sample lies on its centerline position.
C4_TotalAndNaNFree ==
    /\ get_normal(Vec2_zero) = Vec2_zero
    /\ ~panicked
    /\ Built => NoNaN(mesh)
    /\ (Built /\ pc = "move_system") =>
          \A i \in Samples :
              player.tail[i].velocity = Vec2_zero =>
                  Position(OwnOffset(i)) = vec2_to_array_3(player.tail[i].pos)

\* a mesh built of a buffer holding zero and non-zero velocities
C4_Witness ==
    /\ Built /\ pc = "move_system"
    /\ player.tail[TAIL_LEN - 1].velocity = Vec2_zero
    /\ player.tail[TAIL_LEN - 1].pos # player.tail[0].pos
    /\ player.tail[0].velocity # Vec2_zero

Offset(i, k) ==
    vec2_to_array_3(VAdd(player.tail[i].pos,
                         VScale(get_normal(player.tail[k].velocity), SIZE)))

\* C5: the built mesh has 3N-2 vertices: the N centerline positions, then
\* tail[0] offset by normal[0], for each interior i the pair offset by
\* normal[i-1] and normal[i], last tail[N-1] offset by normal[N-1]; the
\* scalar attribute is 1 on the centerline and 0 on the offsets.
C5_VertexLayout ==
    (Built /\ pc = "move_system") =>
        /\ DOMAIN mesh.attributes["Vertex_Position"] = 0 .. 3 * TAIL_LEN - 3
        /\ DOMAIN mesh.attributes["Vertex_X"] = 0 .. 3 * TAIL_LEN - 3
        /\ \A i \in Samples : Position(i) = <<player.tail[i].pos.x, player.tail[i].pos.y, Num(0)>>
        /\ Position(TAIL_LEN) = Offset(0, 0)
        /\ \A i \in 1 .. TAIL_LEN - 2 :
              /\ Position(TAIL_LEN + 2 * i - 1) = Offset(i, i - 1)
              /\ Position(TAIL_LEN + 2 * i) = Offset(i, i)
        /\ Position(3 * TAIL_LEN - 3) = Offset(TAIL_LEN - 1, TAIL_LEN - 1)
        /\ \A k \in 0 .. 3 * TAIL_LEN - 3 :
              mesh.attributes["Vertex_X"][k] = IF k < TAIL_LEN THEN Num(1) ELSE Num(0)

\* a mesh built of a buffer whose first interior sample turned
C5_Witness ==
    /\ Built /\ pc = "move_system"
    /\ get_normal(player.tail[0].velocity) # Vec2_zero
    /\ get_normal(player.tail[1].velocity) # Vec2_zero
    /\ get_normal(player.tail[0].velocity) # get_normal(player.tail[1].velocity)

\* the index lists of the two capacities the repository has used
Indices18 == FlatMapU16(tail_triangles(18))

Indices32 == FlatMapU16(tail_triangles(32))

\* C6 as stated: the installed index list has 6N-12 entries.
C6_Original == Built => Len(mesh.indices) = 6 * TAIL_LEN - 12

\* C6, amended: the index list make_tail_mesh installs has 9N-12 entries
\* (2(N-1) quad triangles and N-2 seam triangles, three indices each);
\* 150 for N = 18 and 276 for N = 32.
C6_IndexCount ==
    /\ Built => Len(mesh.indices) = 9 * TAIL_LEN - 12
    /\ Len(Indices18) = 150
    /\ Len(Indices32) = 276

\* the first build, of the all-default buffer, has installed its index list
C6_Witness ==
    /\ Built /\ pc = "move_system"
    /\ mesh.indices # <<>>
    /\ \A i \in Samples : player.tail[i] = TailNode_default

Triangle(idx, j) == <<idx[3 * j + 1], idx[3 * j + 2], idx[3 * j + 3]>>

TriangleSet(idx, j) == {idx[3 * j + 1], idx[3 * j + 2], idx[3 * j + 3]}

\* an index list over the 3n-2 vertices of a ribbon of n samples
WellFormed(idx, raw, n) ==
    /\ Len(idx) = 3 * Len(raw)
    /\ \A k \in 1 .. Len(idx) : idx[k] \in 0 .. 3 * n - 3
    /\ \A j \in 0 .. Len(raw) - 1 : Triangle(idx, j) = raw[j + 1]
    /\ \A j \in 0 .. Len(raw) - 1 : Cardinality(TriangleSet(idx, j)) = 3
    /\ \A j, l \in 0 .. Len(raw) - 1 : j # l => TriangleSet(idx, j) # TriangleSet(idx, l)
    /\ \A v \in 0 .. 3 * n - 3 : \E k \in 1 .. Len(idx) : idx[k] = v

WellFormed32 == WellFormed(Indices32, tail_triangles(32), 32)

\* C9: every index of the installed list names a vertex of the built mesh
\* and is not truncated by the cast to u16, every triangle has three
\* distinct indices, no two triangles have the same index set, and every
\* vertex is in some triangle; so too for the source's capacity 32.
C9_IndicesWellFormed ==
    /\ Built =>
          /\ WellFormed(mesh.indices, tail_triangles(TAIL_LEN), TAIL_LEN)
          /\ \A k \in 1 .. Len(mesh.indices) :
                mesh.indices[k] \in DOMAIN mesh.attributes["Vertex_Position"]
    /\ WellFormed32

\* a mesh built after pushes, with its interior seam triangle installed
C9_Witness ==
    /\ Built
    /\ player.tail[0].velocity # Vec2_zero
    /\ \E j \in 0 .. (Len(mesh.indices) \div 3) - 1 :
          Triangle(mesh.indices, j) = <<1, TAIL_LEN + 1, TAIL_LEN + 2>>

\* the z component of the cross product of v and a normal n
Cross(v, n) == v.x.i * n.y.r - v.y.i * n.x.r

\* C7: the normal of every non-zero stored velocity v is v turned 90 degrees
\* counter-clockwise, (-vy, vx) over the length of v: a unit vector with
\* v x normal positive.
C7_NormalIsCounterClockwise ==
    \A i \in Samples :
        LET v == player.tail[i].velocity
            n == get_normal(v)
        IN  v # Vec2_zero =>
                /\ n = normalize(Vec2(FNeg(v.y), v.x))
                /\ Cross(v, n) > 0

\* C8: tail_system leaves the buffer alone and makes of the mesh what the
\* builder makes of the buffer from an empty mesh, in every frame, so a
\* mesh already built of the same buffer is rebuilt identical.
C8_MeshIsFunctionOfBuffer ==
    [][pc = "tail_system" =>
          /\ player' = player
          /\ mesh' = Build(player')
          /\ mesh = Build(player) => mesh' = mesh]_vars

\* a frame without a push has rebuilt the mesh of a filled buffer
C8_Witness ==
    /\ pc = "move_system" /\ Built /\ ~tail_timer.finished
    /\ mesh = Build(player)
    /\ player.tail[0].velocity # Vec2_zero
    /\ player.tail[1].velocity # Vec2_zero

\* C10: every stored velocity is the zero vector or has squared length at
\* least 2.
C10_VelocityInvariant ==
    \A i \in Samples :
        \/ player.tail[i].velocity = Vec2_zero
        \/ length_squared(player.tail[i].velocity) >= 2

\* a buffer holding a zero velocity, a non-zero one, and two consecutive
\* samples one unit apart
C10_Witness ==
    /\ \E i \in Samples : player.tail[i].velocity = Vec2_zero
    /\ \E i \in Samples : length_squared(player.tail[i].velocity) >= 2
    /\ distance_squared(player.tail[0].pos, player.tail[1].pos) = 1
    /\ player.tail[0].velocity # Vec2_zero

====
